---- MODULE Spec2Model ----
(***************************************************************************)
(* A model of seas/ica.py: the decomposition entry point `project` (the   *)
(* adaptive component search, the fixed-count path with its component     *)
(* normalizer, the residual accountant) and the reconstruction entry      *)
(* point `rebuild`.                                                       *)
(*                                                                         *)
(* Arrays are modelled by their shapes and by the identity of their       *)
(* columns: eig_vec and eig_mix are a row count and a sequence of the     *)
(* solver's column numbers, so that a reordering or a crop of one array   *)
(* that the other does not follow is visible.  The external solvers (SVD, *)
(* FastICA), the noise classifier and the linearity estimator are         *)
(* environment choices: every outcome their interface allows.             *)
(*                                                                         *)
(* Spec and FairSpec follow one call of project; RebuildSpec one call of   *)
(* rebuild on a result of project; CompareSpec sequences of calls of       *)
(* rebuild, rebuild_mean_roi_timecourse and filter_comparison on one       *)
(* result; NormalizeSpec the sign loop of the fixed-count path on the      *)
(* entries of eig_vec; EstimateSpec the linearity estimator on the         *)
(* singular values.                                                        *)
(***************************************************************************)
EXTENDS Integers, Sequences, FiniteSets, TLC

\* ---------------------------------------------------------------- bounds
\* largest time dimension shape[0]
MaxT == 4
\* largest number of rows of the input vector and of pixels x*y
MaxRows == 3
\* largest svd_multiplier passed explicitly
MaxMult == 2
\* the growth counter components['increased_cutoff'] saturates here
MaxGrow == 3
\* largest movie handed to rebuild: frames, and pixels x*y
MaxFrames == 2
MaxPix == 2
\* pixels, and the most components, of the fits the normalizer is run on
NormRows == 2
\* the most singular values of a spectrum, and the largest of them
MaxSpectrum == 4
MaxEv == 3

\* ------------------------------------------------------ program constants
\* svd_multiplier when None is passed
DefaultMultiplier == 5
\* the signal-fraction target in percent
SignalTarget == 75

\* Python's None for an integer argument
None == -1

\* --------------------------------------------------------------- helpers
Min(a, b) == IF a < b THEN a ELSE b

RECURSIVE SeqSum(_)
SeqSum(s) == IF s = <<>> THEN 0 ELSE Head(s) + SeqSum(Tail(s))

Iota(n) == [i \in 1..n |-> i]

Bits(n) == [1..n -> {0, 1}]

\* the injective sequences of length k over 1..n: the first k places of a
\* permutation of n columns
Arrangements(n, k) ==
    {p \in [1..k -> 1..n] : \A i, j \in 1..k : i # j => p[i] # p[j]}

\* a[idx] for an index sequence idx
Take(a, idx) == [i \in 1..Len(idx) |-> a[idx[i]]]

\* a[:k]
Prefix(a, k) == SubSeq(a, 1, Min(k, Len(a)))

\* np.where(bits == 1): the active positions, in row-major order
Where1(bits) == {p \in 1..Len(bits) : bits[p] = 1}

\* number of rows of a[t_start:t_stop] for an axis of length n (bounds >= 0)
SliceLen(n, s, e) ==
    LET lo == IF s = None THEN 0 ELSE Min(s, n)
        hi == IF e = None THEN n ELSE Min(e, n)
    IN  IF hi > lo THEN hi - lo ELSE 0

\* the (1-based) time samples a[t_start:t_stop] selects
SliceIdx(n, s, e) ==
    LET lo == IF s = None THEN 0 ELSE Min(s, n)
    IN  [i \in 1..SliceLen(n, s, e) |-> lo + i]

\* ------------------------------------------------------------- rebuild
\* the parameters rebuild's signature declares
RebuildParams ==
    {"components", "artifact_components", "t_start", "t_stop",
     "apply_mean_filter", "mlow", "mhigh", "apply_component_filter", "chigh",
     "apply_masked_mean", "filter_method", "fps", "include_noise"}

\* the policy names filter_mean dispatches on
FilterMeanMethods ==
    {"butterworth", "butterworth_lowpass", "butterworth_bandpass", "wavelet",
     "constant"}

\* what a call of rebuild yields: the exception it raised ("" when it
\* returned), and for a returned array its shape, whether it is all zero, the
\* columns it was built from, the time sample each output frame holds, the
\* row of data_r each pixel holds (0: left at zero) and how the mean was added
Raise(e) ==
    [status |-> e, shape |-> <<>>, zero |-> FALSE, kept |-> {},
     frames |-> <<>>, layout |-> <<>>, mean |-> ""]

Return(sh, z, k, f, l, m) ==
    [status |-> "", shape |-> sh, zero |-> z, kept |-> k, frames |-> f,
     layout |-> l, mean |-> m]

\* lines 373-381: the exclusion vector.  `artifact_components == 'none'` on an
\* array is an elementwise comparison on NumPy >= 1.25 (its truth value is an
\* error for two or more elements) and the scalar False before.
ResolveArtifact(c, a, elementwise) ==
    LET ov == a.artifact_components
    IN  IF ov.kind = "None"
        THEN IF "artifact_components" \in DOMAIN c
             THEN [err |-> "", v |-> c["artifact_components"]]
             ELSE [err |-> "KeyError", v |-> <<>>]
        ELSE IF ov.kind = "none"
        THEN [err |-> "", v |-> [i \in 1..c["n_components"] |-> 0]]
        ELSE IF elementwise /\ Len(ov.v) >= 2
        THEN [err |-> "ValueError", v |-> <<>>]
        ELSE IF (~a.include_noise) /\ "noise_components" \in DOMAIN c
        THEN LET nz == c["noise_components"]
             IN  IF Len(nz) # Len(ov.v) /\ Len(nz) # 1
                 THEN [err |-> "ValueError", v |-> <<>>]
                 ELSE [err |-> "",
                       v |-> [i \in 1..Len(ov.v) |->
                                Min(1, ov.v[i]
                                       + nz[IF Len(nz) = 1 THEN 1 ELSE i])]]
        ELSE [err |-> "", v |-> ov.v]

\* lines 434-462: the mean is added back, raw or through filter_mean
AddMean(c, a) ==
    IF a.apply_masked_mean /\ "masks" \notin DOMAIN c
    THEN [err |-> "KeyError", how |-> ""]
    ELSE IF ~a.apply_mean_filter
    THEN [err |-> "", how |-> "raw"]
    ELSE IF a.filter_method \in FilterMeanMethods
    THEN [err |-> "", how |-> a.filter_method]
    ELSE [err |-> "Exception", how |-> ""]

\* lines 466-472: (time, pixels) back to (time, x, y), through the mask if any
Unflatten(c, a, kept, n, t_start, t_stop, how) ==
    LET x == c["shape"][2]
        y == c["shape"][3]
        t == t_stop - t_start
        frames == SliceIdx(n, t_start, t_stop)
        mask == c["roimask"]
    IN  IF ~mask.given
        THEN IF Len(frames) = t
             THEN Return(<<t, x, y>>, FALSE, kept, frames, Iota(x * y), how)
             ELSE Raise("ValueError")
        ELSE IF Len(frames) = t
        THEN Return(<<t, x, y>>, FALSE, kept, frames,
                    [p \in 1..(x * y) |->
                       IF mask.bits[p] = 1
                       THEN Cardinality({q \in Where1(mask.bits) : q <= p})
                       ELSE 0], how)
        ELSE IF Len(frames) = 1
        THEN Return(<<t, x, y>>, FALSE, kept, [i \in 1..t |-> frames[1]],
                    [p \in 1..(x * y) |->
                       IF mask.bits[p] = 1
                       THEN Cardinality({q \in Where1(mask.bits) : q <= p})
                       ELSE 0], how)
        ELSE Raise("ValueError")

\* lines 404-432: the component filter is the only place that binds the local
\* eig_mix; the window defaults and the product read it
Reconstruct(c, a, kept) ==
    IF ~a.apply_component_filter
    THEN Raise("UnboundLocalError")
    ELSE LET n == c["eig_mix"].rows
             t_start == IF a.t_start = None THEN 0 ELSE a.t_start
             t_stop == IF a.t_stop = None THEN n ELSE a.t_stop
             m == AddMean(c, a)
         IN  IF \E i \in kept : i > Len(c["eig_vec"].cols)
                                \/ i > Len(c["eig_mix"].cols)
             THEN Raise("IndexError")
             ELSE IF m.err # ""
             THEN Raise(m.err)
             ELSE Unflatten(c, a, kept, n, t_start, t_stop, m.how)

\* lines 302-474
rebuild(c, a, elementwise) ==
    IF ~(a.kw \subseteq RebuildParams)
    THEN Raise("TypeError")
    ELSE IF c["eig_vec"].cols = <<>>
    THEN Raise("IndexError")
    ELSE LET t == c["shape"][1]
             x == c["shape"][2]
             y == c["shape"][3]
             l == c["eig_vec"].rows
             art == ResolveArtifact(c, a, elementwise)
             reconstruct_indices == {i \in 1..Len(art.v) : art.v[i] = 0}
         IN  IF art.err # ""
             THEN Raise(art.err)
             ELSE IF reconstruct_indices = {}
             THEN Return(<<SliceLen(t, a.t_start, a.t_stop), x, y>>, TRUE, {},
                         SliceIdx(t, a.t_start, a.t_stop),
                         [p \in 1..(x * y) |-> 0], "")
             ELSE IF (~c["roimask"].given) /\ l # x * y
             THEN Raise("AssertionError")
             ELSE IF c["roimask"].given
                     /\ l # Cardinality(Where1(c["roimask"].bits))
             THEN Raise("AssertionError")
             ELSE Reconstruct(c, a, reconstruct_indices)

\* lines 302-314: the defaults of rebuild's keyword parameters
RebuildDefaults ==
    [kw |-> {"components"},
     artifact_components |-> [kind |-> "None", v |-> <<>>],
     t_start |-> None, t_stop |-> None, apply_mean_filter |-> TRUE,
     apply_component_filter |-> FALSE, apply_masked_mean |-> FALSE,
     filter_method |-> "butterworth_highpass", include_noise |-> TRUE]

\* lines 262-264: rebuild(components, artifact_components='none', vector=True)
ResidualCall ==
    [RebuildDefaults EXCEPT
       !.kw = {"components", "artifact_components", "vector"},
       !.artifact_components = [kind |-> "none", v |-> <<>>]]

\* an `except ValueError` in place of line 283's `except Exception`
CaughtOnlyValueError(e) == e = "ValueError"

\* line 283: `except Exception` catches every exception class rebuild raises
Caught(e) ==
    e \in {"Exception", "TypeError", "ValueError", "KeyError", "IndexError",
           "AssertionError", "UnboundLocalError"}

VARIABLES
    \* the position in the entry point the behaviour exercises
    pc,
    \* the arguments of the call of project; for the reconstruction calls
    \* the dictionary as it was passed in
    arg,
    \* project's locals: the shape of vector, and the names of the source
    vector, svd_multiplier, n_components, eig_vec, eig_mix, noise,
    \* the dictionary project builds and returns
    components,
    \* the exception that left project, "" when none
    raised,
    \* the last two component counts handed to FastICA by the adaptive search
    handed,
    \* whether the residual computation raised inside its try block
    residual_failed,
    \* whether this build's NumPy compares an array with a string elementwise
    elementwise,
    \* the arguments of the last call of rebuild, and what the call yielded
    call, result,
    \* the entries of eig_vec, column by column, as the solver returned them
    \* and as the normalizer leaves them; the flip flags; the loop index
    fit_data, eig_vec_data, flipped, loop_i,
    \* how many times linalg.svd was called, and how many times fit_transform
    \* was called for the current fit
    svd_calls, fit_calls,
    \* the array of singular values linalg.svd returned, as the program holds
    \* it now and as it was returned
    ev, svd_returned

vars == <<pc, arg, vector, svd_multiplier, n_components, eig_vec, eig_mix,
          noise, components, raised, handed, residual_failed, elementwise,
          call, result, fit_data, eig_vec_data, flipped, loop_i, svd_calls,
          fit_calls, ev, svd_returned>>

locals == <<vector, svd_multiplier, n_components, eig_vec, eig_mix, noise>>

\* the state of the reconstruction entry point
rebuildVars == <<call, result>>

\* the entries the value-level normalizer works on
dataVars == <<fit_data, eig_vec_data, flipped, loop_i>>

\* the calls of the solvers made so far
retryVars == <<svd_calls, fit_calls>>

\* the spectrum the estimator works on
spectrumVars == <<ev, svd_returned>>

\* a (rows, cols) array of solver output: its row count and the solver's
\* column number of each column, negative when the column was negated
NoArray == [rows |-> 0, cols |-> <<>>]

Masks(x) == {[given |-> FALSE, bits |-> <<>>]}
            \cup {[given |-> TRUE, bits |-> b] : b \in Bits(x)}

ProjectArgs ==
    {[vrows |-> r, shape |-> <<t, x, 1>>, roimask |-> m, n_components |-> n,
      svd_multiplier |-> sm, calc_residuals |-> cr] :
        r \in 1..MaxRows, t \in 1..MaxT, x \in 1..MaxRows,
        m \in UNION {Masks(xx) : xx \in 1..MaxRows},
        n \in {None} \cup 1..MaxRows, sm \in {None} \cup 1..MaxMult,
        cr \in BOOLEAN}

InitProject ==
    /\ pc = "entry"
    /\ arg \in {a \in ProjectArgs :
                  /\ a.roimask.given => Len(a.roimask.bits) = a.shape[2]
                  /\ a.n_components # None => a.svd_multiplier = None}
    /\ vector = [rows |-> arg.vrows, cols |-> arg.shape[1]]
    /\ svd_multiplier = arg.svd_multiplier
    /\ n_components = arg.n_components
    /\ eig_vec = NoArray
    /\ eig_mix = NoArray
    /\ noise = <<>>
    /\ components = <<>>
    /\ raised = ""
    /\ handed = <<None, None>>
    /\ residual_failed = FALSE
    /\ elementwise \in BOOLEAN
    /\ call = RebuildDefaults
    /\ result = Raise("")
    /\ fit_data = <<>>
    /\ eig_vec_data = <<>>
    /\ flipped = <<>>
    /\ loop_i = 0
    /\ svd_calls = 0
    /\ fit_calls = 0
    /\ ev = <<>>
    /\ svd_returned = <<>>

\* an exception leaves project
Abort(e) ==
    /\ pc' = "raised"
    /\ raised' = e

\* lines 87-114: the mask crop, the mean removal, the first keys
Prepare ==
    /\ pc = "entry"
    /\ UNCHANGED <<rebuildVars, dataVars, retryVars, spectrumVars>>
    /\ IF arg.roimask.given /\ Len(arg.roimask.bits) # vector.rows
       THEN /\ Abort("AssertionError")
            /\ UNCHANGED <<locals, components>>
       ELSE /\ vector' = [vector EXCEPT !.rows =
                            IF arg.roimask.given
                            THEN Cardinality(Where1(arg.roimask.bits))
                            ELSE vector.rows]
            /\ components' = ("mean" :> vector.cols)
                             @@ ("roimask" :> arg.roimask)
                             @@ ("shape" :> arg.shape)
            /\ svd_multiplier' = IF svd_multiplier = None
                                 THEN DefaultMultiplier ELSE svd_multiplier
            /\ pc' = IF n_components = None THEN "svd" ELSE "fixed_ica"
            /\ UNCHANGED <<n_components, eig_vec, eig_mix, noise, raised>>
    /\ UNCHANGED <<arg, handed, residual_failed, elementwise>>

\* d[k] = v, adding the key when it is new
Put(d, k, v) == (k :> v) @@ d

\* ------------------------------------------------ adaptive component search
\* lines 119-121: linalg.svd; a ValueError is retried with the gesvd driver,
\* any other exception leaves project
SVD ==
    /\ pc = "svd"
    /\ UNCHANGED <<rebuildVars, dataVars, spectrumVars, fit_calls>>
    /\ svd_calls' = 1
    /\ \/ pc' = "estimate" /\ UNCHANGED raised
       \/ pc' = "svd_retry" /\ UNCHANGED raised
       \/ Abort("LinAlgError")
    /\ UNCHANGED <<arg, locals, components, handed, residual_failed,
                   elementwise>>

\* lines 122-126: the second attempt is not guarded
SVDRetry ==
    /\ pc = "svd_retry"
    /\ UNCHANGED <<rebuildVars, dataVars, spectrumVars, fit_calls>>
    /\ svd_calls' = 2
    /\ \/ pc' = "estimate" /\ UNCHANGED raised
       \/ Abort("ValueError")
    /\ UNCHANGED <<arg, locals, components, handed, residual_failed,
                   elementwise>>

\* lines 477-506: the indices approximate_svd_linearity_transition can return
\* for a spectrum of m values.  With fewer than two values the shifted
\* spectrum sums to zero and no index is returned.
Transitions(m) == IF m >= 2 THEN 0..(m - 1) ELSE {}

\* lines 128-135: the spectrum is stored, the estimator seeds the count
Estimate ==
    /\ pc = "estimate"
    /\ UNCHANGED <<rebuildVars, dataVars, retryVars, spectrumVars>>
    /\ LET m == Min(vector.rows, vector.cols)
       IN  \/ /\ Abort("IndexError")
              /\ components' = Put(components, "svd_eigval", m)
              /\ UNCHANGED n_components
           \/ \E cross_1 \in Transitions(m) :
                /\ n_components' = cross_1 * svd_multiplier
                /\ components' = Put(Put(components, "svd_eigval", m),
                                     "increased_cutoff", 0)
                /\ pc' = "ica"
                /\ UNCHANGED raised
    /\ UNCHANGED <<arg, vector, svd_multiplier, eig_vec, eig_mix, noise,
                   handed, residual_failed, elementwise>>

\* the number of columns FastICA returns when asked for n of a (rows, cols)
\* matrix: it extracts at most min(rows, cols) components
SolverCols(n, v) == Min(n, Min(v.rows, v.cols))

\* FastICA needs at least one component and one sample
SolverAccepts(n, v) == n >= 1 /\ v.rows >= 1 /\ v.cols >= 1

\* lines 138-151: one fit of the solver with the current count, and the
\* classification of the time courses it returned
ICAFit ==
    /\ pc = "ica"
    /\ UNCHANGED <<rebuildVars, dataVars, spectrumVars, svd_calls>>
    /\ fit_calls' = 1
    /\ handed' = <<handed[2], n_components>>
    /\ \/ /\ Abort("ValueError")
          /\ UNCHANGED <<eig_vec, eig_mix, noise>>
       \/ /\ SolverAccepts(n_components, vector)
          /\ LET k == SolverCols(n_components, vector)
             IN  /\ eig_vec' = [rows |-> vector.rows, cols |-> Iota(k)]
                 /\ eig_mix' = [rows |-> vector.cols, cols |-> Iota(k)]
                 /\ noise' \in Bits(k)
          /\ pc' = "check"
          /\ UNCHANGED raised
    /\ UNCHANGED <<arg, vector, svd_multiplier, n_components, components,
                   residual_failed, elementwise>>

\* line 151: p_signal = (1 - noise.sum() / noise.size) * 100 < 75
UnderTarget(nz) ==
    Len(nz) > 0 /\ 100 * (Len(nz) - SeqSum(nz)) < SignalTarget * Len(nz)

\* line 153
AllUsed == Len(noise) = arg.shape[1]

\* line 159
MaxedOut == n_components >= arg.shape[1]

\* lines 153-164: the three ways out of the loop
Break ==
    /\ pc = "check"
    /\ UNCHANGED <<rebuildVars, dataVars, retryVars, spectrumVars>>
    /\ \/ AllUsed
       \/ ~AllUsed /\ UnderTarget(noise)
       \/ ~AllUsed /\ ~UnderTarget(noise) /\ MaxedOut
    /\ pc' = "crop"
    /\ UNCHANGED <<arg, locals, components, raised, handed, residual_failed,
                   elementwise>>

\* lines 169-176: the count after one growth step
Grown(n, t) == IF n + (n \div 2) > t THEN t ELSE n + (n \div 2)

\* lines 165-176: grow by half, clamp to the time dimension, count the step
Grow ==
    /\ pc = "check"
    /\ UNCHANGED <<rebuildVars, dataVars, retryVars, spectrumVars>>
    /\ ~AllUsed /\ ~UnderTarget(noise) /\ ~MaxedOut
    /\ n_components' = Grown(n_components, arg.shape[1])
    /\ components' = [components EXCEPT !["increased_cutoff"] =
                        Min(@ + 1, MaxGrow)]
    /\ pc' = "ica"
    /\ UNCHANGED <<arg, vector, svd_multiplier, eig_vec, eig_mix, noise,
                   raised, handed, residual_failed, elementwise>>

\* line 183: int((noise.size - noise.sum()) * 1.25)
Reduced(nz) == (5 * (Len(nz) - SeqSum(nz))) \div 4

\* the orders np.argsort(eig_mix.std(axis=0))[::-1] can give k columns: the
\* standard deviations are the solver's, so any order
Orders(k) == Arrangements(k, k)

\* the labels reordered but not cut to the reduced count
CropNoiseUncut(nz, ev_sort, r) == Take(nz, ev_sort)

\* lines 193 and 198: noise[ev_sort][::-1][:reduced_n_components]
CropNoise(nz, ev_sort, r) == Prefix(Take(nz, ev_sort), r)

\* lines 178-207: the post-hoc crop
Crop ==
    /\ pc = "crop"
    /\ UNCHANGED <<rebuildVars, dataVars, retryVars, spectrumVars>>
    /\ LET reduced_n_components == Reduced(noise)
           base == Put(Put(Put(components, "lag1_full", eig_mix.cols),
                           "svd_multiplier", svd_multiplier),
                       "svd_cutoff", n_components)
       IN  IF reduced_n_components < n_components
           THEN \E ev_sort \in Orders(Len(eig_mix.cols)) :
                  LET nz == CropNoise(noise, ev_sort, reduced_n_components)
                  IN  /\ eig_vec' = [eig_vec EXCEPT !.cols =
                            Prefix(Take(@, ev_sort), reduced_n_components)]
                      /\ eig_mix' = [eig_mix EXCEPT !.cols =
                            Prefix(Take(@, ev_sort), reduced_n_components)]
                      /\ n_components' = reduced_n_components
                      /\ noise' = nz
                      /\ components' =
                           Put(Put(Put(base, "lag1_full",
                                       Take(eig_mix.cols, ev_sort)),
                                   "noise_components", nz),
                               "cutoff", "cutoff")
           ELSE /\ components' = Put(Put(base, "noise_components", noise),
                                     "cutoff", "cutoff")
                /\ UNCHANGED <<eig_vec, eig_mix, n_components, noise>>
    /\ pc' = "finish"
    /\ UNCHANGED <<arg, vector, svd_multiplier, raised, handed,
                   residual_failed, elementwise>>

\* ---------------------------------------------------------- fixed count
\* what a successful fit leaves in the locals
Fitted ==
    LET k == SolverCols(n_components, vector)
    IN  /\ eig_vec' = [rows |-> vector.rows, cols |-> Iota(k)]
        /\ eig_mix' = [rows |-> vector.cols, cols |-> Iota(k)]

\* lines 213-217: the fit; a ValueError is caught for the float64 retry, any
\* other exception leaves project
FixedFit ==
    /\ pc = "fixed_ica"
    /\ UNCHANGED <<rebuildVars, dataVars, spectrumVars, svd_calls>>
    /\ fit_calls' = 1
    /\ \/ /\ SolverAccepts(n_components, vector)
          /\ Fitted
          /\ pc' = "normalize"
          /\ UNCHANGED raised
       \/ /\ pc' = "fixed_retry"
          /\ UNCHANGED <<eig_vec, eig_mix, raised>>
       \/ /\ Abort("MemoryError")
          /\ UNCHANGED <<eig_vec, eig_mix>>
    /\ UNCHANGED <<arg, vector, svd_multiplier, n_components, noise,
                   components, handed, residual_failed, elementwise>>

\* a retry that is itself retried after a ValueError, up to a third call
FixedRetryAgain ==
    /\ pc = "fixed_retry"
    /\ fit_calls < 3
    /\ UNCHANGED <<rebuildVars, dataVars, spectrumVars, svd_calls>>
    /\ fit_calls' = fit_calls + 1
    /\ \/ /\ SolverAccepts(n_components, vector)
          /\ Fitted
          /\ pc' = "normalize"
          /\ UNCHANGED raised
       \/ /\ pc' = "fixed_retry"
          /\ UNCHANGED <<eig_vec, eig_mix, raised>>
    /\ UNCHANGED <<arg, vector, svd_multiplier, n_components, noise,
                   components, handed, residual_failed, elementwise>>

\* lines 218-222: the retry with the float64 vector is not guarded
FixedRetry ==
    /\ pc = "fixed_retry"
    /\ UNCHANGED <<rebuildVars, dataVars, spectrumVars, svd_calls>>
    /\ fit_calls' = 2
    /\ \/ /\ SolverAccepts(n_components, vector)
          /\ Fitted
          /\ pc' = "normalize"
          /\ UNCHANGED raised
       \/ /\ Abort("ValueError")
          /\ UNCHANGED <<eig_vec, eig_mix>>
    /\ UNCHANGED <<arg, vector, svd_multiplier, n_components, noise,
                   components, handed, residual_failed, elementwise>>

\* column j of a, negated where sgn[j] = -1
Signed(a, sgn) == [j \in 1..Len(a) |-> a[j] * sgn[j]]

\* lines 228-247: order by influence, fix the signs, classify.  The loop runs
\* over range(n_components), the count asked for: a column the solver did not
\* return is an IndexError.
Normalize ==
    /\ pc = "normalize"
    /\ UNCHANGED <<rebuildVars, dataVars, retryVars, spectrumVars>>
    /\ LET k == Len(eig_vec.cols)
       IN  IF n_components > k
           THEN /\ Abort("IndexError")
                /\ UNCHANGED <<eig_vec, eig_mix, noise, components>>
           ELSE \E ev_sort \in Orders(k), sgn \in [1..k -> {1, -1}],
                   nz \in Bits(k) :
                  /\ eig_vec' = [eig_vec EXCEPT !.cols =
                                   Signed(Take(@, ev_sort), sgn)]
                  /\ eig_mix' = [eig_mix EXCEPT !.cols =
                                   Signed(Take(@, ev_sort), sgn)]
                  /\ noise' = nz
                  /\ components' = Put(Put(Put(components,
                                               "noise_components", nz),
                                           "cutoff", "cutoff"),
                                       "flipped", sgn)
                  /\ pc' = "finish"
                  /\ UNCHANGED raised
    /\ UNCHANGED <<arg, vector, svd_multiplier, n_components, handed,
                   residual_failed, elementwise>>

\* --------------------------------------------------- the end of project
\* a.shape[0] read where a.shape[1] is meant
RowCount(a) == a.rows

\* line 254: eig_vec.shape[1]
ColumnCount(a) == Len(a.cols)

\* lines 249-257: the factors and the count enter the dictionary
Finish ==
    /\ pc = "finish"
    /\ UNCHANGED <<rebuildVars, dataVars, retryVars, spectrumVars>>
    /\ n_components' = ColumnCount(eig_vec)
    /\ components' =
         Put(Put(Put(Put(Put(components, "eig_mix", eig_mix),
                         "timecourses", eig_mix),
                     "eig_vec", eig_vec),
                 "n_components", ColumnCount(eig_vec)),
             "lag1", eig_mix.cols)
    /\ pc' = IF arg.calc_residuals THEN "residuals" ELSE "meta"
    /\ UNCHANGED <<arg, vector, svd_multiplier, eig_vec, eig_mix, noise,
                   raised, handed, residual_failed, elementwise>>

\* lines 259-285: the residual accountant, inside its try block
Residuals ==
    /\ pc = "residuals"
    /\ UNCHANGED <<rebuildVars, dataVars, retryVars, spectrumVars>>
    /\ LET rebuilt == rebuild(components, ResidualCall, elementwise)
       IN  IF rebuilt.status = ""
           THEN /\ components' = Put(Put(components, "residuals_spatial",
                                         rebuilt.layout),
                                     "residuals_temporal", rebuilt.frames)
                /\ pc' = "meta"
                /\ UNCHANGED <<raised, residual_failed>>
           ELSE IF Caught(rebuilt.status)
           THEN /\ residual_failed' = TRUE
                /\ pc' = "meta"
                /\ UNCHANGED <<components, raised>>
           ELSE /\ Abort(rebuilt.status)
                /\ residual_failed' = TRUE
                /\ UNCHANGED components
    /\ UNCHANGED <<arg, locals, handed, elementwise>>

\* lines 287-299: the provenance record; project returns
Meta ==
    /\ pc = "meta"
    /\ UNCHANGED <<rebuildVars, dataVars, retryVars, spectrumVars>>
    /\ components' = Put(components, "project_meta",
                         [n_components |-> n_components])
    /\ pc' = "done"
    /\ UNCHANGED <<arg, locals, raised, handed, residual_failed, elementwise>>

Init == InitProject

Next ==
    \/ Prepare
    \/ SVD
    \/ SVDRetry
    \/ Estimate
    \/ ICAFit
    \/ Break
    \/ Grow
    \/ Crop
    \/ FixedFit
    \/ FixedRetry
    \/ Normalize
    \/ Finish
    \/ Residuals
    \/ Meta

Spec == Init /\ [][Next]_vars

\* ------------------------------------------- the reconstruction entry point
\* the keys of the result that rebuild reads
RebuildKeys ==
    {"mean", "roimask", "shape", "eig_vec", "eig_mix", "n_components",
     "noise_components"}

\* what rebuild can see of a result: the columns' identity does not matter
RebuildView(c) ==
    [k \in RebuildKeys |->
       IF k \in {"eig_vec", "eig_mix"}
       THEN [rows |-> c[k].rows, cols |-> Iota(Len(c[k].cols))]
       ELSE c[k]]

\* the results project returns, as rebuild sees them (lines 105-108, 204,
\* 245, 251-256): one mean per time sample, the mask if any selecting the
\* rows of eig_vec, both factors with n_components columns and one noise
\* label for each; no components at all only after the adaptive crop
IsProjectResult(c) ==
    LET t == c["shape"][1]
        k == c["n_components"]
    IN  /\ c["mean"] = t
        /\ c["eig_mix"].rows = t
        /\ c["eig_vec"].rows >= 1
        /\ c["roimask"].given =>
             /\ Len(c["roimask"].bits) = c["shape"][2] * c["shape"][3]
             /\ c["eig_vec"].rows = Cardinality(Where1(c["roimask"].bits))
        /\ c["eig_vec"].cols = Iota(k)
        /\ c["eig_mix"].cols = Iota(k)
        /\ Len(c["noise_components"]) = k
        /\ k <= Min(c["eig_vec"].rows, t)
        /\ k = 0 => Min(c["eig_vec"].rows, t) >= 2

\* every result project returns is one of them
ProjectResultIsRebuildInput ==
    pc = "done" => IsProjectResult(RebuildView(components))

\* the results of movies of at most MaxFrames frames and MaxPix pixels
ProjectResults ==
    {c \in [mean : 1..MaxFrames,
            roimask : UNION {Masks(x) : x \in 1..MaxPix},
            shape : {<<t, x, 1>> : t \in 1..MaxFrames, x \in 1..MaxPix},
            eig_vec : {[rows |-> r, cols |-> Iota(k)] :
                         r \in 1..MaxPix, k \in 0..MaxPix},
            eig_mix : {[rows |-> r, cols |-> Iota(k)] :
                         r \in 1..MaxFrames, k \in 0..MaxPix},
            n_components : 0..MaxPix,
            noise_components : UNION {Bits(k) : k \in 0..MaxPix}] :
       IsProjectResult(c)}

\* the curation step outside this file attaches artifact_components, one flag
\* per component, or has not run yet
Curated(c) ==
    {c} \cup {Put(c, "artifact_components", v) : v \in Bits(c["n_components"])}

\* the policy names the callers pass as filter_method: the four of line 343,
\* among them the default of line 312; 'wavelet', and a name nobody documents
FilterNames ==
    {"butterworth_bandpass", "butterworth_lowpass", "butterworth_highpass",
     "constant", "wavelet", "median"}

\* the calls of rebuild on the result c: the exclusion vector left to the
\* stored one, the string 'none' or an array of one flag per component; the
\* window bounds None or integers with 0 <= t_start <= t_stop
RebuildCalls(c) ==
    LET t == c["shape"][1]
    IN  {a \in [kw : {{"components", "artifact_components", "t_start",
                       "t_stop", "apply_mean_filter",
                       "apply_component_filter", "apply_masked_mean",
                       "filter_method", "include_noise"}},
                artifact_components :
                    {[kind |-> "None", v |-> <<>>],
                     [kind |-> "none", v |-> <<>>]}
                    \cup {[kind |-> "array", v |-> v] :
                            v \in Bits(c["n_components"])},
                t_start : {None} \cup 0..t,
                t_stop : {None} \cup 0..(t + 1),
                apply_mean_filter : BOOLEAN,
                apply_component_filter : BOOLEAN,
                apply_masked_mean : BOOLEAN,
                filter_method : FilterNames,
                include_noise : BOOLEAN] :
           a.t_start # None /\ a.t_stop # None => a.t_start <= a.t_stop}

InitRebuild ==
    /\ pc = "rebuild"
    /\ components \in UNION {Curated(c) : c \in ProjectResults}
    /\ elementwise \in BOOLEAN
    /\ call = RebuildDefaults
    /\ result = Raise("")
    /\ arg = [shape |-> components["shape"]]
    /\ vector = NoArray
    /\ svd_multiplier = None
    /\ n_components = None
    /\ eig_vec = NoArray
    /\ eig_mix = NoArray
    /\ noise = <<>>
    /\ raised = ""
    /\ handed = <<None, None>>
    /\ residual_failed = FALSE
    /\ fit_data = <<>>
    /\ eig_vec_data = <<>>
    /\ flipped = <<>>
    /\ loop_i = 0
    /\ svd_calls = 0
    /\ fit_calls = 0
    /\ ev = <<>>
    /\ svd_returned = <<>>

\* lines 302-474: one call of rebuild on the result, to its return or its
\* exception
Rebuild ==
    /\ pc = "rebuild"
    /\ \E a \in RebuildCalls(components) :
         /\ call' = a
         /\ result' = rebuild(components, a, elementwise)
    /\ pc' = "rebuilt"
    /\ UNCHANGED <<arg, locals, components, raised, handed, residual_failed,
                   elementwise, dataVars, retryVars, spectrumVars>>

RebuildNext == Rebuild

RebuildSpec == InitRebuild /\ [][RebuildNext]_vars

\* ------------------------------------ sequences of reconstruction calls
\* the arguments of filter_comparison that reach rebuild (lines 719-722): the
\* window left open or [0, t_stop) inside the movie
CompareArgs(c) ==
    [include_noise : BOOLEAN,
     t_start : {None, 0},
     t_stop : {None} \cup 1..c["shape"][1],
     apply_mean_filter : BOOLEAN]

\* the rebuild calls a caller makes directly between the comparisons: the
\* exclusion vector, include_noise and apply_component_filter are passed
DirectCalls(c) ==
    {[RebuildDefaults EXCEPT
        !.kw = {"components", "artifact_components", "include_noise",
                "apply_component_filter"},
        !.artifact_components = ac,
        !.include_noise = n,
        !.apply_component_filter = f] :
       ac \in {[kind |-> "None", v |-> <<>>], [kind |-> "none", v |-> <<>>]}
              \cup {[kind |-> "array", v |-> v] :
                      v \in Bits(c["n_components"])},
       n \in BOOLEAN, f \in BOOLEAN}

\* lines 758-762: rebuild(components, include_noise=, t_start=, t_stop=,
\* apply_mean_filter=)
FilteredCall(p) ==
    [RebuildDefaults EXCEPT
       !.kw = {"components", "include_noise", "t_start", "t_stop",
               "apply_mean_filter"},
       !.include_noise = p.include_noise,
       !.t_start = p.t_start,
       !.t_stop = p.t_stop,
       !.apply_mean_filter = p.apply_mean_filter]

\* line 780: rebuild(components, t_start=t_start, t_stop=t_stop)
ArtifactCall(p) ==
    [RebuildDefaults EXCEPT
       !.kw = {"components", "t_start", "t_stop"},
       !.t_start = p.t_start,
       !.t_stop = p.t_stop]

\* lines 788-791: rebuild(components, t_start=, t_stop=, apply_mean_filter=)
RawCall(p) ==
    [RebuildDefaults EXCEPT
       !.kw = {"components", "t_start", "t_stop", "apply_mean_filter"},
       !.t_start = p.t_start,
       !.t_stop = p.t_stop,
       !.apply_mean_filter = p.apply_mean_filter]

\* lines 772-779: the stored exclusion vector is replaced by its complement,
\* with the noise components cleared when include_noise is off
Inverted(c, include_noise) ==
    [c EXCEPT !["artifact_components"] =
        [i \in 1..Len(@) |->
           IF @[i] = 1 THEN 0
           ELSE IF (~include_noise) /\ c["noise_components"][i] = 1 THEN 0
           ELSE 1]]

\* lines 785-786: the stored exclusion vector is replaced by zeros
Cleared(c) ==
    [c EXCEPT !["artifact_components"] = [i \in 1..Len(@) |-> 0]]

\* lines 597-611: the components rebuild_mean_roi_timecourse keeps; the
\* exclusion vector is copied before the noise labels are added
SignalIndices(c, filter, invert_artifact, include_noise) ==
    IF filter /\ "artifact_components" \in DOMAIN c
    THEN LET artifact_components ==
               [i \in 1..Len(c["artifact_components"]) |->
                  IF (~include_noise) /\ c["noise_components"][i] = 1
                  THEN 1 ELSE c["artifact_components"][i]]
         IN  {i \in 1..Len(artifact_components) :
                artifact_components[i] = (IF invert_artifact THEN 1 ELSE 0)}
    ELSE 1..Len(c["eig_vec"].cols)

\* a curated or uncurated result, handed to the reconstruction functions
InitCompare ==
    /\ pc = "idle"
    /\ components \in UNION {Curated(c) : c \in ProjectResults}
    /\ arg = [components |-> components]
    /\ elementwise \in BOOLEAN
    /\ call = RebuildDefaults
    /\ result = Raise("")
    /\ vector = NoArray
    /\ svd_multiplier = None
    /\ n_components = None
    /\ eig_vec = NoArray
    /\ eig_mix = NoArray
    /\ noise = <<>>
    /\ raised = ""
    /\ handed = <<None, None>>
    /\ residual_failed = FALSE
    /\ fit_data = <<>>
    /\ eig_vec_data = <<>>
    /\ flipped = <<>>
    /\ loop_i = 0
    /\ svd_calls = 0
    /\ fit_calls = 0
    /\ ev = <<>>
    /\ svd_returned = <<>>

\* what no reconstruction function touches
compareFrame == <<locals, raised, handed, residual_failed, elementwise,
                  dataVars, retryVars, spectrumVars>>

\* lines 302-474: a direct call of rebuild on the dictionary
DirectRebuild ==
    /\ pc = "idle"
    /\ \E a \in DirectCalls(components) :
         /\ call' = a
         /\ result' = rebuild(components, a, elementwise)
    /\ UNCHANGED <<pc, arg, components, compareFrame>>

\* lines 570-643: rebuild_mean_roi_timecourse with a mask of one region; it
\* returns the (1, t) mean time course of the components it keeps
MeanRoiTimecourse ==
    /\ pc = "idle"
    /\ \E filter \in BOOLEAN, invert_artifact \in BOOLEAN,
          include_noise \in BOOLEAN :
         result' = Return(<<1, components["eig_mix"].rows>>, FALSE,
                          SignalIndices(components, filter, invert_artifact,
                                        include_noise),
                          Iota(components["eig_mix"].rows), <<>>, "")
    /\ UNCHANGED <<pc, arg, call, components, compareFrame>>

\* lines 715-800: filter_comparison up to its return or to the exception of
\* one of its three calls of rebuild, which leaves the dictionary as the
\* statements before it set it
FilterComparison ==
    /\ pc = "idle"
    /\ \E p \in CompareArgs(components) :
         LET filtered == rebuild(components, FilteredCall(p), elementwise)
             inverted == Inverted(components, p.include_noise)
             artifact_movie == rebuild(inverted, ArtifactCall(p), elementwise)
             cleared == Cleared(inverted)
             raw_movie == rebuild(cleared, RawCall(p), elementwise)
         IN  IF filtered.status # ""
             THEN /\ call' = FilteredCall(p)
                  /\ result' = filtered
                  /\ UNCHANGED components
             ELSE IF artifact_movie.status # ""
             THEN /\ call' = ArtifactCall(p)
                  /\ result' = artifact_movie
                  /\ components' = inverted
             ELSE /\ call' = RawCall(p)
                  /\ result' = raw_movie
                  /\ components' = cleared
    /\ UNCHANGED <<pc, arg, compareFrame>>

CompareNext ==
    \/ DirectRebuild
    \/ MeanRoiTimecourse
    \/ FilterComparison

CompareSpec == InitCompare /\ [][CompareNext]_vars

\* --------------------------------- the component normalizer on the entries
\* the entries a spatial loading takes: negative, zero, positive
LoadingValues == {-1, 0, 1}

Abs(v) == IF v < 0 THEN -v ELSE v

\* the columns of r entries
Columns(r) == [1..r -> LoadingValues]

\* line 237: np.argmax(np.abs(col)), the first place of the largest magnitude
ArgMaxAbs(col) ==
    CHOOSE r \in 1..Len(col) :
        /\ \A q \in 1..Len(col) : Abs(col[q]) <= Abs(col[r])
        /\ \A q \in 1..(r - 1) : Abs(col[q]) < Abs(col[r])

\* the flip flag set although the arrays are left as they are
FlagOnly(a, j) == a

\* lines 240-241: a[:, j] *= -1 on the entries
Negate(a, j) == [a EXCEPT ![j] = [q \in DOMAIN @ |-> -@[q]]]

\* the fits of the fixed-count path on NormRows pixels: the solver returned
\* the k columns it was asked for
InitNormalize ==
    /\ pc = "sort"
    /\ \E k \in 1..NormRows :
         /\ fit_data \in [1..k -> Columns(NormRows)]
         /\ n_components = k
         /\ eig_vec = [rows |-> NormRows, cols |-> Iota(k)]
         /\ eig_mix = [rows |-> NormRows, cols |-> Iota(k)]
    /\ eig_vec_data = fit_data
    /\ flipped = <<>>
    /\ loop_i = 0
    /\ svd_calls = 0
    /\ fit_calls = 0
    /\ ev = <<>>
    /\ svd_returned = <<>>
    /\ arg = [shape |-> <<NormRows, NormRows, 1>>]
    /\ vector = [rows |-> NormRows, cols |-> NormRows]
    /\ svd_multiplier = DefaultMultiplier
    /\ noise = <<>>
    /\ components = <<>>
    /\ raised = ""
    /\ handed = <<None, None>>
    /\ residual_failed = FALSE
    /\ elementwise = FALSE
    /\ call = RebuildDefaults
    /\ result = Raise("")

\* lines 228-234: both factors reordered by the same argsort; flipped = ones
NormalizeSort ==
    /\ pc = "sort"
    /\ \E ev_sort \in Orders(n_components) :
         /\ eig_vec_data' = Take(eig_vec_data, ev_sort)
         /\ eig_vec' = [eig_vec EXCEPT !.cols = Take(@, ev_sort)]
         /\ eig_mix' = [eig_mix EXCEPT !.cols = Take(@, ev_sort)]
    /\ flipped' = [j \in 1..n_components |-> 1]
    /\ loop_i' = 1
    /\ pc' = "flip"
    /\ UNCHANGED <<arg, vector, svd_multiplier, n_components, noise,
                   components, raised, handed, residual_failed, elementwise,
                   rebuildVars, retryVars, spectrumVars, fit_data>>

\* lines 235-242: one iteration of the sign loop
NormalizeFlip ==
    /\ pc = "flip"
    /\ loop_i <= n_components
    /\ LET max_idx == ArgMaxAbs(eig_vec_data[loop_i])
       IN  IF eig_vec_data[loop_i][max_idx] < 0
           THEN /\ eig_vec_data' = Negate(eig_vec_data, loop_i)
                /\ eig_vec' = [eig_vec EXCEPT !.cols[loop_i] = -@]
                /\ eig_mix' = [eig_mix EXCEPT !.cols[loop_i] = -@]
                /\ flipped' = [flipped EXCEPT ![loop_i] = -1]
           ELSE UNCHANGED <<eig_vec_data, eig_vec, eig_mix, flipped>>
    /\ loop_i' = loop_i + 1
    /\ UNCHANGED <<pc, arg, vector, svd_multiplier, n_components, noise,
                   components, raised, handed, residual_failed, elementwise,
                   rebuildVars, retryVars, spectrumVars, fit_data>>

\* lines 244-247: the loop is over; the time courses are classified and the
\* flags stored
NormalizeDone ==
    /\ pc = "flip"
    /\ loop_i > n_components
    /\ noise' \in Bits(n_components)
    /\ components' = Put(Put(Put(components, "noise_components", noise'),
                             "cutoff", "cutoff"),
                         "flipped", flipped)
    /\ pc' = "normalized"
    /\ UNCHANGED <<arg, vector, svd_multiplier, n_components, eig_vec,
                   eig_mix, raised, handed, residual_failed, elementwise,
                   rebuildVars, dataVars, retryVars, spectrumVars>>

NormalizeNext ==
    \/ NormalizeSort
    \/ NormalizeFlip
    \/ NormalizeDone

NormalizeSpec == InitNormalize /\ [][NormalizeNext]_vars

\* ------------------------------------- the estimator on the spectrum
\* the singular values linalg.svd returns for a matrix of rank at most m:
\* non-negative, in non-increasing order
Spectra(m) ==
    {sv \in [1..m -> 0..MaxEv] : \A i \in 1..(m - 1) : sv[i] >= sv[i + 1]}

\* the smallest entry of a non-empty array
ArrayMin(a) == CHOOSE v \in {a[i] : i \in 1..Len(a)} :
                   \A i \in 1..Len(a) : v <= a[i]

\* line 496: eig_val -= eig_val.min(), on the array object it was handed
ShiftedInPlace(a) == [i \in 1..Len(a) |-> a[i] - ArrayMin(a)]

\* the adaptive path after linalg.svd returned the spectrum (lines 119-126)
InitEstimate ==
    /\ pc = "store"
    /\ \E m \in 1..MaxSpectrum :
         /\ svd_returned \in Spectra(m)
         /\ vector = [rows |-> m, cols |-> m]
    /\ ev = svd_returned
    /\ svd_multiplier \in 1..MaxMult
    /\ arg = [shape |-> <<vector.cols, vector.rows, 1>>]
    /\ components = ("mean" :> vector.cols)
                    @@ ("roimask" :> [given |-> FALSE, bits |-> <<>>])
                    @@ ("shape" :> arg.shape)
    /\ n_components = None
    /\ eig_vec = NoArray
    /\ eig_mix = NoArray
    /\ noise = <<>>
    /\ raised = ""
    /\ handed = <<None, None>>
    /\ residual_failed = FALSE
    /\ elementwise = FALSE
    /\ call = RebuildDefaults
    /\ result = Raise("")
    /\ fit_data = <<>>
    /\ eig_vec_data = <<>>
    /\ flipped = <<>>
    /\ loop_i = 0
    /\ svd_calls = 1
    /\ fit_calls = 0

\* what the estimator and its call leave alone
estimateFrame == <<arg, vector, svd_multiplier, eig_vec, eig_mix, noise,
                   handed, residual_failed, elementwise, rebuildVars,
                   dataVars, retryVars, svd_returned>>

\* line 128: components['svd_eigval'] = ev stores the array object itself
StoreSpectrum ==
    /\ pc = "store"
    /\ components' = Put(components, "svd_eigval", ev)
    /\ pc' = "shift"
    /\ UNCHANGED <<ev, n_components, raised, estimateFrame>>

\* lines 132 and 496: the estimator is handed ev and shifts it in place; the
\* dictionary entry is the same array
EstimatorShift ==
    /\ pc = "shift"
    /\ ev' = ShiftedInPlace(ev)
    /\ components' = [components EXCEPT !["svd_eigval"] = ev']
    /\ pc' = "fit"
    /\ UNCHANGED <<n_components, raised, estimateFrame>>

\* lines 497-506 and 133: the rest of the estimator works on new arrays; it
\* returns an index of the spectrum, or finds none (always so when the
\* shifted spectrum sums to zero and the division of line 497 gives NaN)
EstimatorReturn ==
    /\ pc = "fit"
    /\ \/ /\ Abort("IndexError")
          /\ UNCHANGED n_components
       \/ \E cross_1 \in Transitions(Len(ev)) :
            /\ SeqSum(ev) > 0
            /\ n_components' = cross_1 * svd_multiplier
            /\ pc' = "estimated"
            /\ UNCHANGED raised
    /\ UNCHANGED <<ev, components, estimateFrame>>

EstimateNext ==
    \/ StoreSpectrum
    \/ EstimatorShift
    \/ EstimatorReturn

EstimateSpec == InitEstimate /\ [][EstimateNext]_vars

\* project runs to its return or to its exception without pausing: a step
\* that can be taken is taken
FairSpec == Spec /\ WF_vars(Next)

\* ------------------------------------------------------------- claims
\* C1: the adaptive component search terminates: once the loop is entered
\* (the first fit is about to run), it eventually leaves through one of its
\* breaks (or through an exception of the solver), whatever the transition
\* index, the multiplier, the time dimension and the noise labels are.
C1_SearchTerminates == (pc = "ica") ~> (pc \in {"crop", "raised"})

\* C2: every component count handed to the ICA solver is at most the time
\* dimension shape[0] and at least the count handed in the iteration before,
\* from the first iteration on.
C2_CountMonotoneBounded ==
    handed[2] # None =>
        /\ handed[2] <= arg.shape[1]
        /\ handed[1] # None => handed[1] <= handed[2]

\* C3: on the adaptive path the n_components stored in the result is at most
\* svd_cutoff, the count at which the growth loop stopped: the post-hoc crop
\* never increases the component count.
C3_CropNeverGrows ==
    "svd_cutoff" \in DOMAIN components /\ "n_components" \in DOMAIN components
        => components["n_components"] <= components["svd_cutoff"]

\* C3's case: an adaptive result is returned that the crop made smaller, and
\* one that it left alone
C3_Witness ==
    /\ pc = "done"
    /\ "svd_cutoff" \in DOMAIN components
    /\ components["n_components"] >= 1
    /\ components["n_components"] < components["svd_cutoff"]
    /\ components["increased_cutoff"] > 0

\* C7: every result project returns, on either path, has as many columns in
\* eig_vec as in eig_mix, as n_components says and as noise_components has
\* labels.
C7_ShapesAgree ==
    pc = "done" =>
        /\ Len(components["eig_vec"].cols) = Len(components["eig_mix"].cols)
        /\ Len(components["eig_vec"].cols) = components["n_components"]
        /\ components["n_components"] = Len(components["noise_components"])

\* C7's case: a cropped adaptive result with components left, returned
C7_Witness ==
    /\ pc = "done"
    /\ "svd_cutoff" \in DOMAIN components
    /\ components["n_components"] < components["svd_cutoff"]
    /\ components["n_components"] >= 2
    /\ Len(components["lag1_full"]) > components["n_components"]

\* the keys of a complete Decomposition Result
CompleteKeys ==
    {"eig_vec", "eig_mix", "n_components", "noise_components", "project_meta"}

\* the residual summaries
ResidualKeys == {"residuals_spatial", "residuals_temporal"}

\* C9: a failure in the residual computation never aborts project: no
\* exception leaves project, and the result it returns is complete, without
\* the residual summaries.
C9_ResidualFailureContained ==
    residual_failed =>
        /\ pc # "raised" /\ raised = ""
        /\ pc = "done" =>
             /\ CompleteKeys \subseteq DOMAIN components
             /\ ResidualKeys \cap DOMAIN components = {}

\* C9's case: the residual computation failed and project returned
C9_Witness == residual_failed /\ pc = "done" /\ arg.calc_residuals

\* C10: a call of project with calc_residuals true whose decomposition
\* succeeds returns a result that holds both residual summaries.
C10_ResidualsStored ==
    pc = "done" /\ arg.calc_residuals => ResidualKeys \subseteq DOMAIN components


\* the result was decomposed from a movie whose pixels are the rows of the
\* matrix, and has at least one component
Consistent(c) ==
    /\ c["n_components"] >= 1
    /\ c["roimask"].given
       \/ c["eig_vec"].rows = c["shape"][2] * c["shape"][3]

\* C4: on a result of project, rebuild asked to include every component
\* ('none'), with the mean filter and the component filter off and no window,
\* completes without an exception and returns the product of all components
\* over every time sample with the raw mean added back.
C4_RoundTripCompletes ==
    (/\ pc = "rebuilt"
     /\ Consistent(components)
     /\ call.artifact_components.kind = "none"
     /\ ~call.apply_mean_filter
     /\ ~call.apply_component_filter
     /\ ~call.apply_masked_mean
     /\ call.t_start = None
     /\ call.t_stop = None)
        => /\ result.status = ""
           /\ result.kept = 1..components["n_components"]
           /\ result.frames = Iota(components["shape"][1])
           /\ result.mean = "raw"

\* every component is flagged for exclusion: by the stored vector when the
\* argument is left None, by the array passed otherwise
AllExcluded(c, a) ==
    LET ov == a.artifact_components
    IN  /\ c["n_components"] >= 1
        /\ \/ /\ ov.kind = "None"
              /\ "artifact_components" \in DOMAIN c
              /\ \A i \in 1..Len(c["artifact_components"]) :
                    c["artifact_components"][i] = 1
           \/ /\ ov.kind = "array"
              /\ \A i \in 1..Len(ov.v) : ov.v[i] = 1

\* C5: when every component is excluded, rebuild returns an all-zero array of
\* the shape (window length, x, y) and raises no exception.
C5_EmptySelectionReturnsZeros ==
    pc = "rebuilt" /\ AllExcluded(components, call)
        => /\ result.status = ""
           /\ result.zero
           /\ result.shape = <<SliceLen(components["shape"][1],
                                        call.t_start, call.t_stop),
                               components["shape"][2],
                               components["shape"][3]>>

\* C6: with every component kept, the component filter on and the mean added
\* back raw, rebuild with the window [t_start, t_stop) returns the frames of
\* that window clamped to the samples there are, in the shape (number of
\* those frames, x, y), and raises no exception when t_stop lies beyond the
\* number of samples.
C6_WindowClamped ==
    (/\ pc = "rebuilt"
     /\ Consistent(components)
     /\ call.artifact_components.kind = "none"
     /\ call.apply_component_filter
     /\ ~call.apply_mean_filter
     /\ ~call.apply_masked_mean
     /\ call.t_start # None
     /\ call.t_stop # None)
        => LET t == components["shape"][1]
           IN  /\ result.status = ""
               /\ result.frames = SliceIdx(t, call.t_start, call.t_stop)
               /\ result.shape = <<SliceLen(t, call.t_start, call.t_stop),
                                   components["shape"][2],
                                   components["shape"][3]>>

\* C8: after the normalizer of the fixed-count path, every spatial component's
\* entry at the first place of its largest magnitude is non-negative, and
\* flipped[i] is -1 exactly when column i was negated (1 otherwise), the
\* negation applied to the same column of both factors.
C8_SignConvention ==
    pc = "normalized" =>
        \A i \in 1..n_components :
            LET col == eig_vec_data[i]
                fit == fit_data[Abs(eig_vec.cols[i])]
            IN  /\ col[ArgMaxAbs(col)] >= 0
                /\ \A q \in 1..Len(col) : Abs(col[q]) <= col[ArgMaxAbs(col)]
                /\ flipped[i] \in {1, -1}
                /\ components["flipped"] = flipped
                /\ col = [q \in 1..Len(fit) |-> flipped[i] * fit[q]]
                /\ eig_vec.cols[i] = flipped[i] * Abs(eig_vec.cols[i])
                /\ eig_mix.cols[i] = eig_vec.cols[i]

\* two components reordered, the first negated and the second, whose first
\* largest entry is positive and whose other entry is negative, left alone
C8_Witness ==
    /\ pc = "normalized"
    /\ n_components = 2
    /\ flipped = <<-1, 1>>
    /\ eig_vec.cols = <<-2, 1>>
    /\ eig_vec_data[1] # fit_data[2]
    /\ eig_vec_data[2] = <<1, -1>>


\* lines 312 and 343: the names the entry point offers for filter_method
OfferedFilterNames ==
    {"butterworth_bandpass", "butterworth_lowpass", "butterworth_highpass",
     "constant", RebuildDefaults.filter_method}

\* C11: rebuild with apply_mean_filter on and a filter_method among the names
\* the entry point offers (band-pass, low-pass, high-pass, constant, its own
\* default) never fails as an unsupported filter.
C11_OfferedFiltersSupported ==
    (/\ pc = "rebuilt"
     /\ call.apply_mean_filter
     /\ call.filter_method \in OfferedFilterNames)
        => result.status # "Exception"


\* the call hands project a mask and a matrix with one row per active location
MaskedPair(a) ==
    /\ a.roimask.given
    /\ a.vrows = Cardinality(Where1(a.roimask.bits))

\* C12: given a mask with k active locations and a signal matrix of k rows,
\* project accepts the pair: it does not reject it with the assertion on the
\* mask's size.
C12_MaskedPairAccepted ==
    MaskedPair(arg) => raised # "AssertionError"


\* C13: when include_noise is false and the result has noise labels, a rebuild
\* that returns was built from no component labelled noise, whether the
\* exclusion vector was the array passed or the stored artifact_components.
C13_NoiseExcluded ==
    (/\ pc = "rebuilt"
     /\ ~call.include_noise
     /\ call.artifact_components.kind \in {"None", "array"}
     /\ result.status = "")
        => \A i \in result.kept : components["noise_components"][i] = 0


\* lines 153-158: the loop was left by the second break, the signal fraction
\* under 75% with components still unused
StoppedUnderTarget == ~AllUsed /\ UnderTarget(noise)

\* C14: when the growth loop stops because the signal fraction is below 75%,
\* the step after the loop leaves the result as it is: the component count,
\* the order of the components of both factors and the noise labels do not
\* change.
C14_UnderTargetAcceptedAsIs ==
    [][(pc = "crop" /\ StoppedUnderTarget)
          => /\ n_components' = n_components
             /\ eig_vec' = eig_vec
             /\ eig_mix' = eig_mix
             /\ noise' = noise]_vars


\* C15: the only automatic retry is the one of the ICA solver: linalg.svd is
\* called at most once in a run of project, and fit_transform at most twice
\* for one fit.
C15_OnlyICARetried ==
    svd_calls <= 1 /\ fit_calls <= 2

\* C15 as amended: linalg.svd is called at most twice (once again with the
\* gesvd driver after a ValueError), fit_transform at most twice for one fit
\* and twice only on the fixed-count path; the fit of the adaptive search is
\* never re-attempted.
C15_RetriesAtMostOnce ==
    /\ svd_calls <= 2
    /\ fit_calls <= 2
    /\ fit_calls = 2 => arg.n_components # None

\* project returned after the second call of linalg.svd succeeded
C15_Witness ==
    pc = "done" /\ svd_calls = 2 /\ fit_calls = 1 /\ raised = ""


\* C16: after any sequence of calls of rebuild, rebuild_mean_roi_timecourse
\* and filter_comparison, every field of the result passed in, in particular
\* artifact_components and noise_components, has the value it had before.
C16_ResultReadOnly ==
    components = arg.components


\* C17: the estimator leaves its input unchanged: once it has returned, the
\* svd_eigval field holds the spectrum exactly as linalg.svd returned it.
C17_SpectrumStoredAsReturned ==
    pc = "estimated" => components["svd_eigval"] = svd_returned

====
